---- MODULE Spec2Model ----
(***************************************************************************)
(* Model of geospatial_functions.py: the two OpenStreetMap fetchers, the   *)
(* centroid calculation, the Folium map builder and the script entry point. *)
(*                                                                         *)
(* Text is modelled as a tuple of string pieces (an f-string is the tuple  *)
(* of its literal parts and its formatted arguments).  A float quotient is *)
(* modelled as the exact fraction <<numerator, denominator>> in lowest     *)
(* terms.  The external services (osmnx, folium) answer nondeterministically*)
(* from small sets of responses.                                           *)
(***************************************************************************)
EXTENDS Integers, Sequences, FiniteSets, TLC

\* ------------------------------------------------------------------ bounds
MaxNodes == 3
MaxPois == 2
MaxCalls == 2

\* ------------------------------------------------------- program constants
InitialZoom == 14
place == "Salzburg, Austria"
OutputFile == "salzburg_interactive_map.html"

\* ----------------------------------------------------------- Python values
Absent == "<absent>"      \* the key is not in the row
NaN == "<nan>"            \* float('nan'): truthy, has no str methods
None == "<none>"

Truthy(v) == v \notin {Absent, None, ""}

\* f"{v}"
Str(v) == IF v = NaN THEN "nan" ELSE IF v = None THEN "None" ELSE v

\* row.get(key, default)
RowGet(row, key, default) == IF row[key] = Absent THEN default ELSE row[key]

\* key in row
RowHas(row, key) == row[key] # Absent

\* v.replace('_', ' ').title() on the tag values that occur
TitleCase(v) ==
  CASE v = "attraction" -> "Attraction"
    [] v = "museum" -> "Museum"
    [] v = "cafe" -> "Cafe"
    [] v = "fast_food" -> "Fast Food"
    [] v = "park" -> "Park"
    [] v = "bakery" -> "Bakery"
    [] OTHER -> v

\* ----------------------------------------------------------- exceptions
NoExc == [type |-> "None", msg |-> <<>>, context |-> "None"]

Exc(type, msg, context) == [type |-> type, msg |-> msg, context |-> context]

\* errors the external services raise: a failed lookup, and unrelated ones
LookupErrors == {"InsufficientResponseError"}
UnexpectedErrors == {"ConnectionError", "TypeError"}
ServiceErrors == LookupErrors \cup UnexpectedErrors

\* ------------------------------------------------------------- the graph
\* A graph is the set of its node ids; node i carries y = 10*i, x = 10*i+10.
NodeData(i) == [y |-> 10 * i, x |-> 10 * i + 10]

Graphs == SUBSET (1 .. MaxNodes)

\* graph.nodes(data=True), in iteration order
NodeList(graph) ==
  SelectSeq([i \in 1 .. MaxNodes |-> i], LAMBDA i : i \in graph)

RECURSIVE SumSeq(_)
SumSeq(s) == IF s = <<>> THEN 0 ELSE Head(s) + SumSeq(Tail(s))

RECURSIVE Gcd(_, _)
Gcd(a, b) == IF b = 0 THEN a ELSE Gcd(b, a % b)

\* a / b as an exact fraction in lowest terms (b > 0, a >= 0)
Quot(a, b) == <<a \div Gcd(a, b), b \div Gcd(a, b)>>

calculate_graph_centroid_swapped(graph) ==
  IF graph = {}
  THEN [raised |-> TRUE,
        exc |-> Exc("ValueError", <<"Graph has no nodes to calculate a centroid.">>, "None"),
        value |-> <<>>]
  ELSE LET nodes == NodeList(graph)
           node_xs == [k \in 1 .. Len(nodes) |-> NodeData(nodes[k]).x]
           node_ys == [k \in 1 .. Len(nodes) |-> NodeData(nodes[k]).y]
           latitude == Quot(SumSeq(node_xs), Len(node_xs))
           longitude == Quot(SumSeq(node_ys), Len(node_ys))
       IN [raised |-> FALSE, exc |-> NoExc, value |-> <<latitude, longitude>>]

calculate_graph_centroid_unguarded(graph) ==
  LET nodes == NodeList(graph)
      node_xs == [k \in 1 .. Len(nodes) |-> NodeData(nodes[k]).x]
      node_ys == [k \in 1 .. Len(nodes) |-> NodeData(nodes[k]).y]
      n == IF Len(nodes) = 0 THEN 1 ELSE Len(nodes)
  IN [raised |-> FALSE, exc |-> NoExc,
      value |-> <<Quot(SumSeq(node_ys), n), Quot(SumSeq(node_xs), n)>>]

calculate_graph_centroid(graph) ==
  IF graph = {}
  THEN [raised |-> TRUE,
        exc |-> Exc("ValueError", <<"Graph has no nodes to calculate a centroid.">>, "None"),
        value |-> <<>>]
  ELSE LET nodes == NodeList(graph)
           node_xs == [k \in 1 .. Len(nodes) |-> NodeData(nodes[k]).x]
           node_ys == [k \in 1 .. Len(nodes) |-> NodeData(nodes[k]).y]
           latitude == Quot(SumSeq(node_ys), Len(node_ys))
           longitude == Quot(SumSeq(node_xs), Len(node_xs))
       IN [raised |-> FALSE, exc |-> NoExc, value |-> <<latitude, longitude>>]

\* ------------------------------------------------------- the POI records
\* row['geometry'] is one of: None ("none"), a value that is no geometry
\* ("other": truthy, has no geom_type, such as a WKT string), or a geometry.
\* bool(geometry) is False for an empty geometry.  x, y are the point's own
\* coordinates (Point only), cx, cy those of its centroid; finite is FALSE
\* when the coordinates are NaN, which folium.Marker rejects.
Geom(kind, geom_type, is_empty, finite, x, y, cx, cy) ==
  [kind |-> kind, geom_type |-> geom_type, is_empty |-> is_empty,
   finite |-> finite, x |-> x, y |-> y, cx |-> cx, cy |-> cy]

GeomNone == Geom("none", "", FALSE, FALSE, 0, 0, 0, 0)
GeomOther == Geom("other", "", FALSE, FALSE, 0, 0, 0, 0)
GeomPoint == Geom("geom", "Point", FALSE, TRUE, 13, 47, 13, 47)
GeomPolygon == Geom("geom", "Polygon", FALSE, TRUE, 0, 0, 14, 48)
GeomMultiPolygon == Geom("geom", "MultiPolygon", FALSE, TRUE, 0, 0, 15, 49)
GeomLineString == Geom("geom", "LineString", FALSE, TRUE, 0, 0, 16, 50)
GeomEmptyPolygon == Geom("geom", "Polygon", TRUE, FALSE, 0, 0, 0, 0)
GeomNanPoint == Geom("geom", "Point", FALSE, FALSE, 0, 0, 0, 0)

Row(geometry, name, tourism, amenity, leisure, shop) ==
  [geometry |-> geometry, name |-> name, tourism |-> tourism,
   amenity |-> amenity, leisure |-> leisure, shop |-> shop]

\* the rows a feature query can hand to the builder
PoiRecords ==
  { Row(GeomPoint, "Castle", "attraction", Absent, Absent, Absent),
    Row(GeomNone, Absent, Absent, Absent, Absent, Absent),
    Row(GeomPolygon, "Cafe Mozart", "attraction", "cafe", Absent, Absent),
    Row(GeomPoint, "Museum Cafe", "museum", "cafe", "park", "bakery"),
    Row(GeomMultiPolygon, Absent, "", Absent, "park", Absent),
    Row(GeomPoint, NaN, Absent, "fast_food", Absent, "bakery"),
    Row(GeomPolygon, "Bench", Absent, None, Absent, Absent),
    Row(GeomPoint, "Baeckerei", Absent, Absent, Absent, "bakery"),
    Row(GeomLineString, "Promenade", "attraction", Absent, Absent, Absent),
    Row(GeomPoint, "Tomaselli", NaN, "cafe", Absent, Absent),
    Row(GeomEmptyPolygon, "Empty", Absent, "cafe", Absent, Absent),
    Row(GeomNanPoint, "Nowhere", Absent, Absent, "park", Absent),
    Row(GeomOther, "Text", "attraction", Absent, Absent, Absent) }

RECURSIVE SeqsUpTo(_, _)
SeqsUpTo(S, n) ==
  IF n = 0 THEN {<<>>}
  ELSE LET shorter == SeqsUpTo(S, n - 1)
       IN shorter \cup {Append(s, e) : s \in {t \in shorter : Len(t) = n - 1}, e \in S}

PoiCollections == SeqsUpTo(PoiRecords, MaxPois)

\* ------------------------------------------------- the per-record handling
\* line 198, evaluated outside the try: AttributeError when the value is
\* truthy and has no geom_type
GeometryTestRaises(row) ==
  IF row.geometry.kind = "other" THEN "AttributeError" ELSE "None"

GeometryAccepted_AnyType(row) ==
  /\ row.geometry.kind = "geom"
  /\ ~row.geometry.is_empty

\* line 198: row['geometry'] and row['geometry'].geom_type in [...]
GeometryAccepted(row) ==
  /\ row.geometry.kind = "geom"
  /\ ~row.geometry.is_empty
  /\ row.geometry.geom_type \in {"Point", "Polygon", "MultiPolygon"}

\* lines 201-203: (lon, lat)
RepresentativePoint(row) ==
  IF row.geometry.geom_type # "Point"
  THEN <<row.geometry.cx, row.geometry.cy>>
  ELSE <<row.geometry.x, row.geometry.y>>

TypeKeys == <<"tourism", "amenity", "leisure", "shop">>

\* the first populated tag of the if/elif chain of lines 207-210, or Absent
LabelKey_AmenityFirst(row) ==
  IF Truthy(RowGet(row, "amenity", None)) THEN "amenity"
  ELSE IF Truthy(RowGet(row, "tourism", None)) THEN "tourism"
  ELSE IF Truthy(RowGet(row, "leisure", None)) THEN "leisure"
  ELSE IF Truthy(RowGet(row, "shop", None)) THEN "shop"
  ELSE Absent

LabelKey(row) ==
  IF Truthy(RowGet(row, "tourism", None)) THEN "tourism"
  ELSE IF Truthy(RowGet(row, "amenity", None)) THEN "amenity"
  ELSE IF Truthy(RowGet(row, "leisure", None)) THEN "leisure"
  ELSE IF Truthy(RowGet(row, "shop", None)) THEN "shop"
  ELSE Absent

\* lines 206-210: raises AttributeError when the chosen value is no string
popup_text(row) ==
  LET name == Str(RowGet(row, "name", "Unnamed POI"))
      key == LabelKey(row)
  IN IF key = Absent THEN [raised |-> FALSE, text |-> <<name>>]
     ELSE IF row[key] = NaN THEN [raised |-> TRUE, text |-> <<name>>]
     ELSE [raised |-> FALSE, text |-> <<name, "Type: ", TitleCase(row[key])>>]

ClusterNames == {"Attractions", "Cafes", "Parks", "Other POIs"}

Style(color, icon, cluster) == [color |-> color, icon |-> icon, cluster |-> cluster]

Classify_CafeFirst(row) ==
  IF RowHas(row, "amenity") /\ row.amenity = "cafe"
  THEN Style("green", "coffee", "Cafes")
  ELSE IF RowHas(row, "tourism") /\ row.tourism = "attraction"
  THEN Style("red", "star", "Attractions")
  ELSE IF RowHas(row, "leisure") /\ row.leisure = "park"
  THEN Style("lightgreen", "tree", "Parks")
  ELSE Style("blue", "info", "Other POIs")

\* lines 214-229
Classify(row) ==
  IF RowHas(row, "tourism") /\ row.tourism = "attraction"
  THEN Style("red", "star", "Attractions")
  ELSE IF RowHas(row, "amenity") /\ row.amenity = "cafe"
  THEN Style("green", "coffee", "Cafes")
  ELSE IF RowHas(row, "leisure") /\ row.leisure = "park"
  THEN Style("lightgreen", "tree", "Parks")
  ELSE Style("blue", "info", "Other POIs")

\* lines 232-235; folium rejects a location that is not finite
MarkerRaises(row) == ~row.geometry.finite

Marker(row) ==
  LET pt == RepresentativePoint(row)
      style == Classify(row)
  IN [location |-> <<pt[2], pt[1]>>,
      popup |-> popup_text(row).text,
      icon |-> [color |-> style.color, icon |-> style.icon, prefix |-> "fa"]]

\* What one iteration of the loop of lines 196-240 does with a row:
\*   "raised"  the test of line 198 raised, outside the try
\*   "skipped" the test was false
\*   "caught"  an exception inside the try was caught (lines 238-240)
\*   "marker"  a marker was added to a cluster
HandleRow(row) ==
  IF GeometryTestRaises(row) # "None" THEN "raised"
  ELSE IF ~GeometryAccepted(row) THEN "skipped"
  ELSE IF popup_text(row).raised \/ MarkerRaises(row) THEN "caught"
  ELSE "marker"

\* ------------------------------------------------------------ the fetchers
\* what the external services answer: a value, or one of ServiceErrors raised
Response(error, value) == [error |-> error, value |-> value]

NetworkResponses ==
  {Response("None", g) : g \in Graphs} \cup {Response(e, {}) : e \in ServiceErrors}

FeatureResponses ==
  {Response("None", p) : p \in PoiCollections} \cup {Response(e, <<>>) : e \in ServiceErrors}

Result(raised, exc, value, out) ==
  [raised |-> raised, exc |-> exc, value |-> value, out |-> out]

poi_tags == "{'tourism': ['attraction', 'museum'], 'amenity': ['cafe', 'restaurant'], 'leisure': 'park'}"

\* the error is printed and swallowed, the caller gets an empty graph
get_street_network_swallow(place_name, network_type, response) ==
  LET start == <<"--- Downloading street network for: ", place_name, " (", network_type, " network) ---">>
  IN IF response.error = "None"
     THEN Result(FALSE, NoExc, response.value,
                 <<start,
                   <<"Street network graph created with ", ToString(Cardinality(response.value)), " nodes">>>>)
     ELSE Result(FALSE, NoExc, {},
                 <<start,
                   <<"Error downloading street network for ", place_name, ": ", response.error>>>>)

\* lines 65-73 (the edge count of the progress line is left out)
get_street_network(place_name, network_type, response) ==
  LET start == <<"--- Downloading street network for: ", place_name, " (", network_type, " network) ---">>
  IN IF response.error = "None"
     THEN Result(FALSE, NoExc, response.value,
                 <<start,
                   <<"Street network graph created with ", ToString(Cardinality(response.value)), " nodes">>>>)
     ELSE Result(TRUE,
                 Exc("ValueError",
                     <<"Could not retrieve street network for '", place_name,
                       "'. Check place name or network type.">>,
                     response.error),
                 {},
                 <<start,
                   <<"Error downloading street network for ", place_name, ": ", response.error>>>>)

\* lines 95-108.  The ValueError of line 103 is raised inside the try, so the
\* handler of line 106 catches it like any other exception.
get_points_of_interest(place_name, tags, response) ==
  LET start == <<"--- Downloading Points of Interest for: ", place_name, " with tags: ", tags, " ---">>
      found == <<"Found ", ToString(Len(response.value)), " POIs of various types.">>
      wrapped(e) == Exc("ValueError",
                        <<"Could not retrieve POIs for '", place_name, "'. Check tags or place name.">>,
                        e)
      error_line(e) == <<"Error downloading POIs for ", place_name, " with tags ", tags, ": ", e>>
  IN IF response.error # "None"
     THEN Result(TRUE, wrapped(response.error), <<>>, <<start, error_line(response.error)>>)
     ELSE IF response.value = <<>>
     THEN Result(TRUE, wrapped("ValueError"), <<>>,
                 <<start, found,
                   <<"No POIs found for ", place_name, " with the given tags.">>,
                   error_line("ValueError")>>)
     ELSE Result(FALSE, NoExc, response.value, <<start, found>>)

\* ---------------------------------------------------------------- the state
VARIABLES
  pc,        \* position of the caller: the script entry point, or "test" for a direct caller
  bpc,       \* position inside create_interactive_map: "idle" or "loop"
  idx,       \* the row the loop of line 196 is at
  graph,     \* G_salzburg / the graph argument
  pois_gdf,  \* pois_salzburg / the pois_gdf argument
  m,         \* the map under construction
  results,   \* outcomes of the completed calls of create_interactive_map, oldest first
  exc,       \* the exception that reached the caller
  stdout,    \* the lines printed so far
  file       \* TRUE when salzburg_interactive_map.html has been written

vars == <<pc, bpc, idx, graph, pois_gdf, m, results, exc, stdout, file>>

EmptyClusters == [c \in ClusterNames |-> <<>>]

NoMap ==
  [created |-> FALSE, location |-> <<>>, zoom_start |-> 0, tiles |-> "",
   children |-> <<>>, clusters |-> EmptyClusters]

Outcome(raised, e, map) == [raised |-> raised, exc |-> e, m |-> map]

\* the clusters of an earlier call are used again
NewMarkerClusters_Shared ==
  IF results = <<>> THEN EmptyClusters ELSE results[Len(results)].m.clusters

\* lines 190-193: four new, empty clusters
NewMarkerClusters == EmptyClusters

Init ==
  /\ pc = "network"
  /\ bpc = "idle"
  /\ idx = 1
  /\ graph = {}
  /\ pois_gdf = <<>>
  /\ m = NoMap
  /\ results = <<>>
  /\ exc = NoExc
  /\ stdout = <<>>
  /\ file = FALSE

\* a caller that holds a graph and a POI collection and calls the builder itself
InitBuilder ==
  /\ pc = "test"
  /\ bpc = "idle"
  /\ idx = 1
  /\ graph \in Graphs
  /\ pois_gdf \in PoiCollections
  /\ m = NoMap
  /\ results = <<>>
  /\ exc = NoExc
  /\ stdout = <<>>
  /\ file = FALSE

\* line 255
GetStreetNetwork ==
  /\ pc = "network"
  /\ \E response \in NetworkResponses :
       LET r == get_street_network(place, "walk", response)
       IN /\ stdout' = stdout \o r.out
          /\ exc' = r.exc
          /\ graph' = r.value
          /\ pc' = IF r.raised THEN "except" ELSE "pois"
  /\ UNCHANGED <<bpc, idx, pois_gdf, m, results, file>>

\* line 258
GetPointsOfInterest ==
  /\ pc = "pois"
  /\ \E response \in FeatureResponses :
       LET r == get_points_of_interest(place, poi_tags, response)
       IN /\ stdout' = stdout \o r.out
          /\ exc' = r.exc
          /\ pois_gdf' = r.value
          /\ pc' = IF r.raised THEN "except" ELSE "build"
  /\ UNCHANGED <<bpc, idx, graph, m, results, file>>

\* lines 164-193: the call, the centroid, the base map, the network layer and
\* the four clusters
CreateMapStart ==
  /\ pc \in {"build", "test"}
  /\ bpc = "idle"
  /\ Len(results) < MaxCalls
  /\ LET c == calculate_graph_centroid(graph)
         banner == <<"--- Creating interactive map for ", place, " ---">>
     IN IF c.raised
        THEN /\ stdout' = Append(stdout, banner)
             /\ exc' = c.exc
             /\ results' = Append(results, Outcome(TRUE, c.exc, NoMap))
             /\ pc' = IF pc = "build" THEN "except" ELSE pc
             /\ UNCHANGED <<bpc, idx, m>>
        ELSE /\ stdout' = stdout \o
                  <<banner,
                    <<"Map will be centered at: Lat ", ToString(c.value[1]), ", Lon ", ToString(c.value[2])>>,
                    <<"Adding street network to map...">>,
                    <<"Adding Points of Interest to map...">>>>
             /\ m' = [created |-> TRUE, location |-> c.value, zoom_start |-> InitialZoom,
                      tiles |-> "OpenStreetMap",
                      children |-> <<"Street Network", "Attractions", "Cafes", "Parks", "Other POIs">>,
                      clusters |-> NewMarkerClusters]
             /\ bpc' = "loop"
             /\ idx' = 1
             /\ UNCHANGED <<pc, exc, results>>
  /\ UNCHANGED <<graph, pois_gdf, file>>

\* lines 196-240: one iteration of the loop
CreateMapRecord ==
  /\ bpc = "loop"
  /\ idx <= Len(pois_gdf)
  /\ LET row == pois_gdf[idx]
         how == HandleRow(row)
         raised == Exc(GeometryTestRaises(row), <<"geometry">>, "None")
     IN CASE how = "raised" ->
               /\ exc' = raised
               /\ results' = Append(results, Outcome(TRUE, raised, NoMap))
               /\ m' = NoMap
               /\ bpc' = "idle"
               /\ pc' = IF pc = "build" THEN "except" ELSE pc
               /\ UNCHANGED <<idx, stdout>>
          [] how = "skipped" ->
               /\ idx' = idx + 1
               /\ UNCHANGED <<pc, bpc, m, results, exc, stdout>>
          [] how = "caught" ->
               /\ stdout' = Append(stdout,
                     <<"Skipping POI '", Str(RowGet(row, "name", "Unnamed")),
                       "' due to geometry error: ",
                       IF popup_text(row).raised THEN "AttributeError" ELSE "ValueError">>)
               /\ idx' = idx + 1
               /\ UNCHANGED <<pc, bpc, m, results, exc>>
          [] how = "marker" ->
               /\ m' = [m EXCEPT !.clusters[Classify(row).cluster] = Append(@, Marker(row))]
               /\ idx' = idx + 1
               /\ UNCHANGED <<pc, bpc, results, exc, stdout>>
  /\ UNCHANGED <<graph, pois_gdf, file>>

\* lines 242-246: the layer control, and the map goes to the caller
CreateMapReturn ==
  /\ bpc = "loop"
  /\ idx > Len(pois_gdf)
  /\ results' = Append(results,
        Outcome(FALSE, NoExc, [m EXCEPT !.children = Append(@, "LayerControl")]))
  /\ stdout' = Append(stdout, <<"Interactive map created successfully.">>)
  /\ m' = NoMap
  /\ bpc' = "idle"
  /\ pc' = IF pc = "build" THEN "save" ELSE pc
  /\ UNCHANGED <<idx, graph, pois_gdf, exc, file>>

\* lines 262-263: save either writes the file or raises before writing it
SaveMap ==
  /\ pc = "save"
  /\ \E error \in {"None", "OSError"} :
       IF error = "None"
       THEN /\ file' = TRUE
            /\ stdout' = Append(stdout, <<"Map saved as ", OutputFile>>)
            /\ pc' = "done"
            /\ exc' = exc
       ELSE /\ exc' = Exc(error, <<"cannot write ", OutputFile>>, "None")
            /\ pc' = "except"
            /\ UNCHANGED <<file, stdout>>
  /\ UNCHANGED <<bpc, idx, graph, pois_gdf, m, results>>

\* lines 265-266
ExceptValueError ==
  /\ pc = "except"
  /\ exc.type = "ValueError"
  /\ stdout' = Append(stdout, <<"An error occurred: ">> \o exc.msg)
  /\ pc' = "done"
  /\ UNCHANGED <<bpc, idx, graph, pois_gdf, m, results, exc, file>>

\* lines 267-268
ExceptException ==
  /\ pc = "except"
  /\ exc.type # "ValueError"
  /\ stdout' = Append(stdout, <<"An unexpected error occurred: ">> \o exc.msg)
  /\ pc' = "done"
  /\ UNCHANGED <<bpc, idx, graph, pois_gdf, m, results, exc, file>>

Next ==
  \/ GetStreetNetwork
  \/ GetPointsOfInterest
  \/ CreateMapStart
  \/ CreateMapRecord
  \/ CreateMapReturn
  \/ SaveMap
  \/ ExceptValueError
  \/ ExceptException

NextBuilder ==
  \/ CreateMapStart
  \/ CreateMapRecord
  \/ CreateMapReturn

\* the script entry point
Spec == Init /\ [][Next]_vars

\* the script runs to its end: nothing it waits for is modelled as blocking
FairSpec == Spec /\ WF_vars(Next)

\* direct calls of create_interactive_map, up to MaxCalls of them
BuilderSpec == InitBuilder /\ [][NextBuilder]_vars

\* ================================================================ properties
Printed(prefix) == \E i \in 1 .. Len(stdout) : stdout[i][1] = prefix

LinesWith(prefixes) == Cardinality({i \in 1 .. Len(stdout) : stdout[i][1] \in prefixes})

Markers(map) ==
  Len(map.clusters["Attractions"]) + Len(map.clusters["Cafes"])
    + Len(map.clusters["Parks"]) + Len(map.clusters["Other POIs"])

Returned(k) == k \in 1 .. Len(results) /\ ~results[k].raised

CastleRow == Row(GeomPoint, "Castle", "attraction", Absent, Absent, Absent)
NullGeometryRow == Row(GeomNone, Absent, Absent, Absent, Absent, Absent)
AttractionCafeRow == Row(GeomPolygon, "Cafe Mozart", "attraction", "cafe", Absent, Absent)
MuseumCafeRow == Row(GeomPoint, "Museum Cafe", "museum", "cafe", "park", "bakery")

\* ---- C1
\* C1: when the feature query returns zero results, the error that reaches the
\* caller of get_points_of_interest carries the 'No POIs found' message naming
\* the place, not the 'Could not retrieve POIs' message of a failed fetch.
C1_ZeroResultsKeepTheirMessage ==
  (pc \in {"except", "done"} /\ Printed("No POIs found for "))
    => /\ exc.type = "ValueError"
       /\ exc.msg = <<"No POIs found for '", place, "' with the specified tags.">>

\* ---- C2
\* C2: a failure while handling one record, the geometry test of line 198
\* included, never aborts the build: on a graph with nodes every call of
\* create_interactive_map returns the map.
C2_RecordFailureNeverAborts ==
  \A k \in 1 .. Len(results) : graph # {} => ~results[k].raised

\* ---- C3
NullOrUnsupported(row) ==
  \/ row.geometry.kind = "none"
  \/ /\ row.geometry.kind = "geom"
     /\ row.geometry.geom_type \notin {"Point", "Polygon", "MultiPolygon"}

Populated(v) == v # Absent /\ v # None /\ v # "" /\ v # NaN

\* the row passes the test of line 198 and nothing in the try fails on it
SupportedAndSound(row) ==
  /\ row.geometry.kind = "geom"
  /\ ~row.geometry.is_empty
  /\ row.geometry.geom_type \in {"Point", "Polygon", "MultiPolygon"}
  /\ row.geometry.finite
  /\ \A i \in 1 .. 4 :
       (row[TypeKeys[i]] = NaN) => \E j \in 1 .. i - 1 : Populated(row[TypeKeys[j]])

C3_Step ==
  (bpc = "loop" /\ idx <= Len(pois_gdf))
    => /\ NullOrUnsupported(pois_gdf[idx])
            => m' = m /\ results' = results /\ exc' = exc /\ bpc' = "loop"
       /\ SupportedAndSound(pois_gdf[idx])
            => m'.created /\ Markers(m') = Markers(m) + 1

C3_Scenario ==
  (pois_gdf = <<CastleRow, NullGeometryRow>> /\ graph # {})
    => \A k \in 1 .. Len(results) :
         /\ ~results[k].raised
         /\ Len(results[k].m.clusters["Attractions"]) = 1
         /\ Markers(results[k].m) = 1

\* C3: a record whose geometry is null or of an unsupported type adds no marker
\* and raises nothing; a record with a supported geometry that is handled
\* without error adds exactly one marker; <<Castle, null geometry>> yields one
\* marker, in Attractions, and the build completes.
C3_UnsupportedSkippedSupportedOnce == [][C3_Step]_vars /\ []C3_Scenario

C3_Witness ==
  /\ pois_gdf = <<CastleRow, NullGeometryRow>>
  /\ Returned(1)
  /\ Markers(results[1].m) = 1

\* ---- C4
ExpectedCluster(row) ==
  IF row.tourism = "attraction" THEN "Attractions"
  ELSE IF row.amenity = "cafe" THEN "Cafes"
  ELSE IF row.leisure = "park" THEN "Parks"
  ELSE "Other POIs"

ExpectedIcon(cluster) ==
  CASE cluster = "Attractions" -> [color |-> "red", icon |-> "star", prefix |-> "fa"]
    [] cluster = "Cafes" -> [color |-> "green", icon |-> "coffee", prefix |-> "fa"]
    [] cluster = "Parks" -> [color |-> "lightgreen", icon |-> "tree", prefix |-> "fa"]
    [] OTHER -> [color |-> "blue", icon |-> "info", prefix |-> "fa"]

MarkerAdded == m.created /\ m'.created /\ Markers(m') # Markers(m)

C4_Step ==
  MarkerAdded
    => LET c == ExpectedCluster(pois_gdf[idx])
       IN /\ Len(m'.clusters[c]) = Len(m.clusters[c]) + 1
          /\ m'.clusters[c][Len(m'.clusters[c])].icon = ExpectedIcon(c)
          /\ \A d \in ClusterNames \ {c} : m'.clusters[d] = m.clusters[d]
          /\ (pois_gdf[idx].tourism = "attraction" /\ pois_gdf[idx].amenity = "cafe")
               => c = "Attractions" /\ m'.clusters["Cafes"] = m.clusters["Cafes"]

\* C4: every rendered record goes into exactly one cluster, chosen by the first
\* match of tourism=attraction, amenity=cafe, leisure=park, else Other, with the
\* icon of that cluster; attraction+cafe is always in Attractions.
C4_FirstMatchCluster == [][C4_Step]_vars

C4_Witness ==
  /\ pois_gdf = <<AttractionCafeRow>>
  /\ Returned(1)
  /\ Len(results[1].m.clusters["Attractions"]) = 1
  /\ Len(results[1].m.clusters["Cafes"]) = 0

\* ---- C5
RECURSIVE SumY(_)
SumY(S) ==
  IF S = {} THEN 0
  ELSE LET i == CHOOSE j \in S : TRUE IN NodeData(i).y + SumY(S \ {i})

RECURSIVE SumX(_)
SumX(S) ==
  IF S = {} THEN 0
  ELSE LET i == CHOOSE j \in S : TRUE IN NodeData(i).x + SumX(S \ {i})

\* location = (mean of y, mean of x), by cross-multiplication
IsMeanOfNodes(location) ==
  /\ location[1][2] > 0 /\ location[2][2] > 0
  /\ location[1][1] * Cardinality(graph) = location[1][2] * SumY(graph)
  /\ location[2][1] * Cardinality(graph) = location[2][2] * SumX(graph)

\* C5: on a graph with nodes the centroid is (mean of the y values, mean of
\* the x values); nodes (10,20), (20,30), (30,40) give (20, 30).
C5_CentroidIsMean ==
  /\ m.created => IsMeanOfNodes(m.location)
  /\ \A k \in 1 .. Len(results) : graph # {} /\ ~results[k].raised
        => IsMeanOfNodes(results[k].m.location)
  /\ (m.created /\ graph = {1, 2, 3}) => m.location = <<<<20, 1>>, <<30, 1>>>>

C5_Witness == m.created /\ graph = {1, 2, 3}

\* ---- C6
\* C6: on a graph without nodes the centroid calculation fails with the
\* ValueError of line 129 and returns nothing, and create_interactive_map fails
\* with that error before a map, a layer or a marker exists.
C6_EmptyGraphFailsFast ==
  graph = {}
    => /\ m = NoMap
       /\ bpc = "idle"
       /\ \A k \in 1 .. Len(results) :
            /\ results[k].raised
            /\ results[k].exc.type = "ValueError"
            /\ results[k].exc.msg = <<"Graph has no nodes to calculate a centroid.">>
            /\ results[k].m = NoMap

C6_Witness == graph = {} /\ Len(results) >= 1 /\ results[1].raised

\* ---- C7
\* C7: an unexpected error raised inside get_street_network or
\* get_points_of_interest reaches the caller as that same error and is reported
\* by the handler for unexpected errors.
C7_UnexpectedErrorsPropagate ==
  (pc \in {"except", "done"} /\ exc.context \in UnexpectedErrors)
    => /\ exc.type = exc.context
       /\ pc = "done" => Printed("An unexpected error occurred: ")

\* ---- C8
ResultsAgree ==
  \A j, k \in 1 .. Len(results) :
    /\ results[j].raised = results[k].raised
    /\ results[j].m.location = results[k].m.location
    /\ \A c \in ClusterNames :
         Len(results[j].m.clusters[c]) = Len(results[k].m.clusters[c])

\* C8: calls of create_interactive_map with the same graph and POI collection
\* give the same center and the same marker count per cluster, and no call
\* changes the graph or the POI collection.
C8_Deterministic ==
  []ResultsAgree /\ [][graph' = graph /\ pois_gdf' = pois_gdf]_vars

C8_Witness ==
  /\ Len(results) >= 2
  /\ Returned(1) /\ Returned(2)
  /\ Markers(results[2].m) >= 1

\* ---- C9
NetFailed == Printed("Error downloading street network for ")
NetOK == Printed("Street network graph created with ")
PoiStarted == Printed("--- Downloading Points of Interest for: ")
PoiFailed == Printed("Error downloading POIs for ")
PoiOK == PoiStarted /\ ~PoiFailed
BuildStarted == Printed("--- Creating interactive map for ")
BuildOK == Printed("Interactive map created successfully.")
Saved == Printed("Map saved as ")
Failed == exc # NoExc

HandlerLines == {"An error occurred: ", "An unexpected error occurred: "}
FetcherErrorLines == {"Error downloading street network for ", "Error downloading POIs for "}

StagesInOrder ==
  /\ PoiStarted => NetOK /\ ~NetFailed
  /\ BuildStarted => NetOK /\ PoiOK
  /\ file => BuildOK
  /\ file <=> Saved
  /\ NetFailed => Failed /\ ~PoiStarted
  /\ PoiFailed => Failed /\ ~BuildStarted
  /\ Failed => ~file /\ pc \in {"except", "done"}
  /\ (pc = "done" /\ ~Failed) => file

\* C9 as stated: after a failed stage exactly one error line has been printed
C9_ExactlyOneErrorLine ==
  /\ StagesInOrder
  /\ (pc = "done" /\ Failed) => LinesWith(HandlerLines \cup FetcherErrorLines) = 1

C9_Safety ==
  /\ StagesInOrder
  /\ (pc = "done" /\ Failed)
       => /\ LinesWith(HandlerLines) = 1
          /\ LinesWith(FetcherErrorLines) = (IF NetFailed \/ PoiFailed THEN 1 ELSE 0)
  /\ (pc = "done" /\ ~Failed) => LinesWith(HandlerLines \cup FetcherErrorLines) = 0

StageRank ==
  CASE pc = "network" -> 5
    [] pc = "pois" -> 4
    [] pc = "build" -> 3
    [] pc = "save" -> 2
    [] pc = "except" -> 1
    [] OTHER -> 0

\* what is left to do: the stages ahead, and within the build the rows ahead
Variant ==
  StageRank * (MaxPois + 3)
    + (IF pc # "build" THEN 0
       ELSE IF bpc = "idle" THEN MaxPois + 2
       ELSE Len(pois_gdf) + 1 - idx)

\* C9: the stages run in the order network fetch, POI fetch, build, save, each
\* only after the ones before it succeeded; the file is written and the success
\* line printed only when all succeeded; after a failure no later stage runs,
\* no file is written, exactly one of the entry point's two handlers prints its
\* line (a failed fetcher has printed its own error line before that), and the
\* run ends: until it is done a step is always possible, and every step
\* brings the natural number Variant down.
C9_LinearStages ==
  /\ [](C9_Safety /\ Variant >= 0 /\ (pc = "done" \/ ENABLED Next))
  /\ [][Variant' < Variant]_vars

C9_Witness == pc = "done" /\ Failed /\ NetFailed /\ LinesWith(HandlerLines) = 1

\* ---- C10
NamePart(row) == IF row.name = Absent THEN "Unnamed POI" ELSE Str(row.name)

ExpectedTypeKey(row) ==
  IF Populated(row.tourism) THEN "tourism"
  ELSE IF Populated(row.amenity) THEN "amenity"
  ELSE IF Populated(row.leisure) THEN "leisure"
  ELSE IF Populated(row.shop) THEN "shop"
  ELSE Absent

ExpectedLabel(row) ==
  IF ExpectedTypeKey(row) = Absent THEN <<NamePart(row)>>
  ELSE <<NamePart(row), "Type: ", TitleCase(row[ExpectedTypeKey(row)])>>

NewMarker ==
  LET c == CHOOSE d \in ClusterNames : Len(m'.clusters[d]) # Len(m.clusters[d])
  IN [cluster |-> c, marker |-> m'.clusters[c][Len(m'.clusters[c])]]

C10_Step ==
  MarkerAdded
    => /\ NewMarker.marker.popup = ExpectedLabel(pois_gdf[idx])
       /\ Len(NewMarker.marker.popup) \in {1, 3}
       /\ pois_gdf[idx] = MuseumCafeRow
            => /\ NewMarker.marker.popup = <<"Museum Cafe", "Type: ", "Museum">>
               /\ NewMarker.cluster = "Cafes"

====
